---- MODULE Spec2Model ----
(***************************************************************************)
(* Model of mcpify: the live-object PointerRegistry (pointer_registry.py), *)
(* the ValueSerializer (value_serializer.py) and the type descriptors      *)
(* (mcp_types.py).                                                         *)
(***************************************************************************)
EXTENDS Integers, Sequences, FiniteSets, TLC

(***************************************************************************)
(* Bounds of the model.                                                    *)
(***************************************************************************)
\* how many handles uuid4 hands out in one run
MaxHandles == 3

(***************************************************************************)
(* The Python objects callers hand to the registry.                        *)
(*   o1, o2 : instances of a plain class (have __dict__ and __weakref__)   *)
(*   p1     : instance of a tuple subclass: has __dict__, no __weakref__   *)
(*   none   : Python's None (no __dict__, no __weakref__)                  *)
(***************************************************************************)
None == "none"

Objects == {"o1", "o2", "p1", None}

\* weakref.finalize(obj, ...) raises TypeError for an object without __weakref__
Weakrefable(o) == o \in {"o1", "o2"}

\* hasattr(value, '__dict__')
HasDict(o) == o \in {"o1", "o2", "p1"}

\* value.__class__.__name__
ClassName(o) == IF o \in {"o1", "o2"} THEN "O" ELSE IF o = "p1" THEN "P" ELSE "NoneType"

\* list(value.__dict__.keys())
Attrs(o) == IF o = "o1" THEN <<"a", "b">> ELSE IF o = "o2" THEN <<"a">> ELSE <<>>

Threads == {"t1", "t2"}

\* str(uuid.uuid4()): the n-th identifier drawn; uuid4 draws are modelled as
\* never repeating
HandleOf(n) == <<"h1", "h2", "h3", "h4", "h5">>[n]

\* a string no uuid4 draw ever produces
Unknown == "zz"

IssuableHandles == {HandleOf(n) : n \in 1..MaxHandles}

HandleUniverse == IssuableHandles \cup {Unknown}

VARIABLES
  objects,     \* PointerRegistry._objects: handle -> object (a strong reference)
  finalizers,  \* keys of PointerRegistry._finalizers
  hooks,       \* the weakref.finalize objects made so far: handle -> [obj, alive]
  owned,       \* objects some owner other than the registry still references
  freed,       \* objects the interpreter has reclaimed
  fired,       \* handles whose cleanup callback has run
  nextId,      \* number of uuid4 draws so far, plus one
  pc,          \* per thread: "idle", or "with_lock" inside register
  obj_id,      \* per thread: register's local obj_id
  arg,         \* per thread: register's parameter obj
  issued,      \* history: [h, obj] for every handle a register call returned
  removed,     \* history: handles removed by unregister, clear or cleanup
  type_registry, \* TypeRegistry._registry: type name -> class
  last,        \* the last completed call: <<op, arg, kind, val>>
  tools,       \* McpifiedServer.tool_holder.tools: <<name, FunctionTool>> pairs, in insertion order
  schemas,     \* McpifiedServer.tool_holder.schemas: <<name, FunctionSchema>> pairs
  calls,       \* how many times handle_call_tool has invoked a tool function
  received     \* the tool and the arguments of the last invocation of a tool function

vars == <<objects, finalizers, hooks, owned, freed, fired, nextId, pc, obj_id, arg,
          issued, removed, type_registry, last, tools, schemas, calls, received>>

server == <<tools, schemas, calls, received>>

registry == <<objects, finalizers, hooks>>

heap == <<owned, freed, fired>>

frames == <<pc, obj_id, arg>>

Range(f) == {f[x] : x \in DOMAIN f}

Restrict(f, S) == [x \in S |-> f[x]]

Put(f, k, v) == [x \in DOMAIN f \cup {k} |-> IF x = k THEN v ELSE f[x]]

\* dict.get(key) with the default None
DictGet(d, k) == IF k \in DOMAIN d THEN d[k] ELSE None

\* a completed call: the operation, its argument, "ok" or "raise", and the
\* value returned or the exception raised
Result(op, a, kind, val) == <<op, a, kind, val>>

OpOf(r) == r[1]

ArgOf(r) == r[2]

KindOf(r) == r[3]

ValueOf(r) == r[4]

\* a frame of register still references its argument
InFrame(o) == \E t \in Threads : pc[t] = "with_lock" /\ arg[t] = o

\* what keeps an object alive: an outside owner, a running call, or the
\* strong reference held in _objects
Reachable(o) == o \in owned \/ InFrame(o) \/ o \in Range(objects) \/ o = None

Init ==
  /\ objects = <<>>
  /\ finalizers = {}
  /\ hooks = <<>>
  /\ owned = Objects \ {None}
  /\ freed = {}
  /\ fired = {}
  /\ nextId = 1
  /\ pc = [t \in Threads |-> "idle"]
  /\ obj_id = [t \in Threads |-> Unknown]
  /\ arg = [t \in Threads |-> None]
  /\ issued = {}
  /\ removed = {}
  /\ type_registry = <<>>
  /\ last = Result("init", None, "ok", None)
  /\ tools = <<>>
  /\ schemas = <<>>
  /\ calls = 0
  /\ received = <<None, <<"dict", <<>>>>>>    \* no tool yet, the empty dict

(***************************************************************************)
(* PointerRegistry.register                                                *)
(***************************************************************************)
\* obj_id = str(uuid.uuid4()), before the lock is taken
RegisterCall(t, o) ==
  /\ pc[t] = "idle"
  /\ o \in owned \cup {None}
  /\ nextId <= MaxHandles
  /\ obj_id' = [obj_id EXCEPT ![t] = HandleOf(nextId)]
  /\ nextId' = nextId + 1
  /\ arg' = [arg EXCEPT ![t] = o]
  /\ pc' = [pc EXCEPT ![t] = "with_lock"]
  /\ UNCHANGED <<server, registry, heap, issued, removed, type_registry, last>>

\* the objects table after  self._objects[obj_id] = obj
StoreObject(d, h, o) == Put(d, h, o)

\* the body of `with self._lock:`: the entry is stored, then weakref.finalize
\* either installs the hook or raises TypeError and leaves the entry behind
RegisterEffect(h, o) ==
  /\ objects' = StoreObject(objects, h, o)
  /\ IF Weakrefable(o)
       THEN /\ hooks' = Put(hooks, h, [obj |-> o, alive |-> TRUE])
            /\ finalizers' = finalizers \cup {h}
            /\ issued' = issued \cup {[h |-> h, obj |-> o]}
       ELSE UNCHANGED <<hooks, finalizers, issued>>

\* the locked section and the return (or the TypeError) of register
RegisterLocked(t) ==
  /\ pc[t] = "with_lock"
  /\ RegisterEffect(obj_id[t], arg[t])
  /\ last' = IF Weakrefable(arg[t])
               THEN Result("register", arg[t], "ok", obj_id[t])
               ELSE Result("register", arg[t], "raise", "TypeError")
  /\ pc' = [pc EXCEPT ![t] = "idle"]
  /\ obj_id' = [obj_id EXCEPT ![t] = Unknown]
  /\ arg' = [arg EXCEPT ![t] = None]
  /\ UNCHANGED <<server, heap, nextId, removed, type_registry>>

(***************************************************************************)
(* PointerRegistry.get, size, list_ids                                     *)
(***************************************************************************)
get(h) == DictGet(objects, h)

size == Cardinality(DOMAIN objects)

list_ids == DOMAIN objects

Get(h) ==
  /\ last' = Result("get", h, "ok", get(h))
  /\ owned' = IF get(h) = None THEN owned ELSE owned \cup {get(h)}
  /\ UNCHANGED <<server, registry, freed, fired, nextId, frames, issued, removed, type_registry>>

Size ==
  /\ last' = Result("size", None, "ok", size)
  /\ UNCHANGED <<server, registry, heap, nextId, frames, issued, removed, type_registry>>

(***************************************************************************)
(* PointerRegistry.unregister                                              *)
(***************************************************************************)
\* finalizer.detach() on each hook of H
Detach(hk, H) ==
  [h \in DOMAIN hk |-> IF h \in H THEN [hk[h] EXCEPT !.alive = FALSE] ELSE hk[h]]

Unregister(h) ==
  /\ IF h \in DOMAIN objects
       THEN /\ objects' = Restrict(objects, DOMAIN objects \ {h})
            /\ hooks' = Detach(hooks, finalizers \cap {h})
            /\ finalizers' = finalizers \ {h}
            /\ removed' = removed \cup {h}
            /\ last' = Result("unregister", h, "ok", TRUE)
       ELSE /\ UNCHANGED <<objects, hooks, finalizers, removed>>
            /\ last' = Result("unregister", h, "ok", FALSE)
  /\ UNCHANGED <<server, heap, nextId, frames, issued, type_registry>>

(***************************************************************************)
(* PointerRegistry.clear                                                   *)
(***************************************************************************)
Clear ==
  /\ hooks' = Detach(hooks, finalizers)
  /\ objects' = <<>>
  /\ finalizers' = {}
  /\ removed' = removed \cup DOMAIN objects
  /\ last' = Result("clear", None, "ok", None)
  /\ UNCHANGED <<server, heap, nextId, frames, issued, type_registry>>

(***************************************************************************)
(* Owners dropping their references, and the interpreter reclaiming an     *)
(* object nothing references any more; reclaiming runs the object's live   *)
(* weakref.finalize callbacks (cleanup, pointer_registry.py 22-25).        *)
(***************************************************************************)
Drop(o) ==
  /\ o \in owned
  /\ ~InFrame(o)
  /\ owned' = owned \ {o}
  /\ UNCHANGED <<server, registry, freed, fired, nextId, frames, issued, removed, type_registry,
                 last>>

\* the hooks weakref fires when o is reclaimed
LiveHooks(o) == {h \in DOMAIN hooks : hooks[h].obj = o /\ hooks[h].alive}

Collect(o) ==
  /\ o \in Objects \ freed
  /\ ~Reachable(o)
  /\ freed' = freed \cup {o}
  /\ LET H == LiveHooks(o) IN
       \* cleanup(obj_id): _objects.pop(obj_id, None); _finalizers.pop(obj_id, None)
       /\ objects' = Restrict(objects, DOMAIN objects \ H)
       /\ finalizers' = finalizers \ H
       /\ hooks' = Detach(hooks, H)
       /\ fired' = fired \cup H
       /\ removed' = removed \cup (H \cap DOMAIN objects)
  /\ UNCHANGED <<server, owned, nextId, frames, issued, type_registry, last>>

(***************************************************************************)
(* Python values.  Every value is a pair <<type, content>>; ObjV(o) is a    *)
(* reference to the heap object o.                                         *)
(***************************************************************************)
TypeOf(x) == x[1]

ValOf(x) == x[2]

IntV(n) == <<"int", n>>

BoolV(b) == <<"bool", b>>

FloatV(n) == <<"float", n>>   \* the float n.0

StrV(s) == <<"str", s>>

NoneV == <<"none", 0>>

ListV(s) == <<"list", s>>

TupleV(s) == <<"tuple", s>>

DictV(pairs) == <<"dict", pairs>>   \* <<key, value>> pairs, in insertion order

SetV(s) == <<"set", s>>

ObjV(o) == <<"obj", o>>

\* python_type.__new__(python_type) followed by setattr for each field
Instance(cls, fields) == <<"instance", <<cls, fields>>>>

Ok(val) == [kind |-> "ok", val |-> val]

Raise(e) == [kind |-> "raise", val |-> e]

\* value.__dict__.items() of the heap objects
AttrValues(o) ==
  IF o = "o1" THEN << <<StrV("a"), IntV(1)>>, <<StrV("b"), IntV(2)>> >>
  ELSE IF o = "o2" THEN << <<StrV("a"), IntV(1)>> >>
  ELSE <<>>

Keys(d) == {ValOf(d)[i][1] : i \in DOMAIN ValOf(d)}

\* key in d  /  d[key]  /  d.get(key)
HasKey(d, k) == TypeOf(d) = "dict" /\ StrV(k) \in Keys(d)

Item(d, k) == ValOf(d)[CHOOSE i \in DOMAIN ValOf(d) : ValOf(d)[i][1] = StrV(k)][2]

ItemOrNone(d, k) == IF HasKey(d, k) THEN Item(d, k) ELSE NoneV

\* d without the key k
RECURSIVE Without(_, _)
Without(pairs, k) ==
  IF pairs = <<>> THEN <<>>
  ELSE IF Head(pairs)[1] = StrV(k) THEN Without(Tail(pairs), k)
  ELSE <<Head(pairs)>> \o Without(Tail(pairs), k)

\* d[k] = val on a copy of d: replaces in place, or appends
SetItem(pairs, k, val) ==
  IF \E i \in DOMAIN pairs : pairs[i][1] = StrV(k)
    THEN [i \in DOMAIN pairs |-> IF pairs[i][1] = StrV(k) THEN <<StrV(k), val>> ELSE pairs[i]]
    ELSE Append(pairs, <<StrV(k), val>>)

\* bool(value)
Truthy(x) ==
  CASE TypeOf(x) = "none" -> FALSE
    [] TypeOf(x) = "bool" -> ValOf(x)
    [] TypeOf(x) \in {"int", "float"} -> ValOf(x) # 0
    [] TypeOf(x) = "str" -> ValOf(x) # ""
    [] TypeOf(x) \in {"list", "tuple", "dict", "set"} -> ValOf(x) # <<>>
    [] OTHER -> TRUE

\* isinstance(value, (list, tuple)): p1 is an instance of a tuple subclass
IsSequence(x) == TypeOf(x) \in {"list", "tuple"} \/ x = ObjV("p1")

\* the elements of a sequence; p1 is P((1,))
Elements(x) == IF TypeOf(x) = "obj" THEN <<IntV(1)>> ELSE ValOf(x)

(***************************************************************************)
(* str(value) and repr(value)                                              *)
(***************************************************************************)
RECURSIVE PyRepr(_), PyReprItems(_), PyReprPairs(_)
PyRepr(x) ==
  CASE TypeOf(x) = "int" -> ToString(ValOf(x))
    [] TypeOf(x) = "float" -> ToString(ValOf(x)) \o ".0"
    [] TypeOf(x) = "bool" -> IF ValOf(x) THEN "True" ELSE "False"
    [] TypeOf(x) = "none" -> "None"
    [] TypeOf(x) = "str" -> "'" \o ValOf(x) \o "'"
    [] TypeOf(x) = "list" -> "[" \o PyReprItems(ValOf(x)) \o "]"
    [] TypeOf(x) = "tuple" -> "(" \o PyReprItems(ValOf(x)) \o (IF Len(ValOf(x)) = 1 THEN ",)" ELSE ")")
    [] TypeOf(x) = "set" -> "{" \o PyReprItems(ValOf(x)) \o "}"
    [] TypeOf(x) = "dict" -> "{" \o PyReprPairs(ValOf(x)) \o "}"
    [] x = ObjV("p1") -> "(" \o PyReprItems(Elements(x)) \o ",)"
    [] TypeOf(x) = "obj" /\ ValOf(x) # "p1" -> "<" \o ClassName(ValOf(x)) \o " object at " \o ValOf(x) \o ">"
    [] OTHER -> "<" \o ValOf(x)[1] \o " object>"

PyReprItems(s) ==
  IF s = <<>> THEN ""
  ELSE IF Len(s) = 1 THEN PyRepr(s[1])
  ELSE PyRepr(s[1]) \o ", " \o PyReprItems(Tail(s))

PyReprPairs(s) ==
  IF s = <<>> THEN ""
  ELSE PyRepr(s[1][1]) \o ": " \o PyRepr(s[1][2])
         \o (IF Len(s) = 1 THEN "" ELSE ", " \o PyReprPairs(Tail(s)))

PyStr(x) == IF TypeOf(x) = "str" THEN ValOf(x) ELSE PyRepr(x)

(***************************************************************************)
(* json.dumps(value) and json.dumps(value, default=str)                    *)
(***************************************************************************)
\* a dict key json.dumps accepts: str, int, float, bool or None
JsonKeyOk(k) == TypeOf(k) \in {"str", "int", "float", "bool", "none"}

JsonKeyText(k) ==
  CASE TypeOf(k) = "str" -> ValOf(k)
    [] TypeOf(k) = "bool" -> IF ValOf(k) THEN "true" ELSE "false"
    [] TypeOf(k) = "none" -> "null"
    [] OTHER -> PyRepr(k)

\* json.dumps raises TypeError on x
RECURSIVE JsonRaises(_, _)
JsonRaises(x, useDefault) ==
  CASE TypeOf(x) \in {"int", "float", "bool", "none", "str"} -> FALSE
    [] IsSequence(x) -> \E i \in DOMAIN Elements(x) : JsonRaises(Elements(x)[i], useDefault)
    [] TypeOf(x) = "dict" -> \E i \in DOMAIN ValOf(x) :
                         ~JsonKeyOk(ValOf(x)[i][1]) \/ JsonRaises(ValOf(x)[i][2], useDefault)
    [] OTHER -> ~useDefault

RECURSIVE JsonText(_), JsonItems(_), JsonMembers(_)
JsonText(x) ==
  CASE TypeOf(x) = "int" -> ToString(ValOf(x))
    [] TypeOf(x) = "float" -> ToString(ValOf(x)) \o ".0"
    [] TypeOf(x) = "bool" -> IF ValOf(x) THEN "true" ELSE "false"
    [] TypeOf(x) = "none" -> "null"
    [] TypeOf(x) = "str" -> "\"" \o ValOf(x) \o "\""
    [] IsSequence(x) -> "[" \o JsonItems(Elements(x)) \o "]"
    [] TypeOf(x) = "dict" -> "{" \o JsonMembers(ValOf(x)) \o "}"
    [] OTHER -> "\"" \o PyStr(x) \o "\""    \* default=str

JsonItems(s) ==
  IF s = <<>> THEN ""
  ELSE IF Len(s) = 1 THEN JsonText(s[1])
  ELSE JsonText(s[1]) \o ", " \o JsonItems(Tail(s))

JsonMembers(s) ==
  IF s = <<>> THEN ""
  ELSE "\"" \o JsonKeyText(s[1][1]) \o "\": " \o JsonText(s[1][2])
         \o (IF Len(s) = 1 THEN "" ELSE ", " \o JsonMembers(Tail(s)))

json_dumps(x, useDefault) ==
  IF JsonRaises(x, useDefault) THEN Raise("TypeError") ELSE Ok(StrV(JsonText(x)))

\* the integers whose decimal text int() and float() are asked to parse
SmallInts == -1 .. 5

\* int(value), float(value)
PyInt(x) ==
  CASE TypeOf(x) = "int" -> Ok(x)
    [] TypeOf(x) = "bool" -> Ok(IntV(IF ValOf(x) THEN 1 ELSE 0))
    [] TypeOf(x) = "float" -> Ok(IntV(ValOf(x)))
    [] TypeOf(x) = "str" -> IF \E n \in SmallInts : ToString(n) = ValOf(x)
                        THEN Ok(IntV(CHOOSE n \in SmallInts : ToString(n) = ValOf(x)))
                        ELSE Raise("ValueError")
    [] OTHER -> Raise("TypeError")

PyFloat(x) ==
  CASE TypeOf(x) = "float" -> Ok(x)
    [] TypeOf(x) = "int" -> Ok(FloatV(ValOf(x)))
    [] TypeOf(x) = "bool" -> Ok(FloatV(IF ValOf(x) THEN 1 ELSE 0))
    [] TypeOf(x) = "str" -> IF \E n \in SmallInts : ValOf(x) \in {ToString(n), ToString(n) \o ".0"}
                        THEN Ok(FloatV(CHOOSE n \in SmallInts :
                                         ValOf(x) \in {ToString(n), ToString(n) \o ".0"}))
                        ELSE Raise("ValueError")
    [] OTHER -> Raise("TypeError")

(***************************************************************************)
(* Type descriptors (mcp_types.py)                                         *)
(***************************************************************************)
MCP_ANY == [k |-> "any"]

MCP_INT == [k |-> "int"]

MCP_FLOAT == [k |-> "float"]

MCP_STRING == [k |-> "string"]

MCP_BOOL == [k |-> "bool"]

MCPArray(items) == [k |-> "array", items |-> items]

\* properties: <<name, descriptor>> pairs in order; type_name: a name or None
\* description keeps its dataclass default, None
MCPObject(properties, required, type_name) ==
  [k |-> "object", properties |-> properties, required |-> required,
   type_name |-> type_name, description |-> None]

\* MCPObject(..., description=d)
Described(T, d) == [T EXCEPT !.description = d]

\* variants: a tuple of at least two descriptors (__post_init__ rejects fewer)
MCPUnion(variants) == [k |-> "union", variants |-> variants]

MCPOptional(inner_type) == [k |-> "optional", inner_type |-> inner_type]

\* a descriptor class the schema builder has no _build_ method for
MCP_OTHER == [k |-> "other"]

\* hasattr(value, '__dict__')
HasAttrDict(x) == (TypeOf(x) = "obj" /\ HasDict(ValOf(x))) \/ TypeOf(x) = "instance"

\* value.__dict__ as a dict
AttrDict(x) == IF TypeOf(x) = "obj" THEN AttrValues(ValOf(x)) ELSE ValOf(x)[2]

(***************************************************************************)
(* TypeConverter.convert_from_value (callable_inspector.py)                *)
(***************************************************************************)
RECURSIVE convert_from_value(_)
convert_from_value(x) ==
  CASE TypeOf(x) \in {"int", "bool"} -> MCP_INT       \* isinstance(True, int) holds
    [] TypeOf(x) = "float" -> MCP_FLOAT
    [] TypeOf(x) = "str" -> MCP_STRING
    [] IsSequence(x) ->
         IF Elements(x) = <<>> THEN MCPArray(MCP_STRING)
         ELSE MCPArray(convert_from_value(Elements(x)[1]))
    [] TypeOf(x) = "dict" ->
         MCPObject([i \in DOMAIN ValOf(x) |-> <<ValOf(x)[i][1], convert_from_value(ValOf(x)[i][2])>>],
                   [i \in DOMAIN ValOf(x) |-> ValOf(x)[i][1]], None)
    [] HasAttrDict(x) /\ ~IsSequence(x) /\ TypeOf(x) # "dict" ->
         \* _convert_object_from_value
         LET d == AttrDict(x) IN
           MCPObject([i \in DOMAIN d |-> <<d[i][1], convert_from_value(d[i][2])>>],
                     [i \in DOMAIN d |-> d[i][1]],
                     IF TypeOf(x) = "obj" THEN ClassName(ValOf(x)) ELSE ValOf(x)[1])
    [] OTHER -> MCP_ANY

(***************************************************************************)
(* serialize_value of each descriptor                                      *)
(***************************************************************************)
\* MCPObject.serialize_value
SerializeObject(T, x) ==
  LET named == T.type_name \notin {None, ""}      \* `if self.type_name:`
      tagged(pairs) == IF named
                         THEN SetItem(pairs, "__mcp_type__", StrV(T.type_name))
                         ELSE pairs
  IN IF HasAttrDict(x) THEN json_dumps(DictV(tagged(AttrDict(x))), TRUE)
     ELSE IF TypeOf(x) = "dict" THEN json_dumps(DictV(tagged(ValOf(x))), TRUE)
     ELSE json_dumps(DictV(<< <<StrV("value"), x>>,
                              <<StrV("__mcp_type__"),
                                StrV(IF named THEN T.type_name ELSE "object")>> >>),
                     TRUE)

\* MCPArray.serialize_value
MCPArray_serialize_value(T, x) ==
  json_dumps(IF IsSequence(x) THEN x ELSE ListV(<<x>>), TRUE)

\* MCPUnion.serialize_value
MCPUnion_serialize_value(T, x) == json_dumps(x, TRUE)

RECURSIVE serialize_value(_, _)

\* MCPOptional.serialize_value: both isinstance branches make the same call
MCPOptional_serialize_value(T, x) ==
  IF TypeOf(x) = "none" THEN Ok(NoneV) ELSE serialize_value(T.inner_type, x)

serialize_value(T, x) ==
  CASE T.k = "int" -> PyInt(x)
    [] T.k = "float" -> PyFloat(x)
    [] T.k = "string" -> Ok(StrV(PyStr(x)))
    [] T.k = "bool" -> Ok(BoolV(Truthy(x)))
    [] T.k = "any" ->
         json_dumps(x, ~(TypeOf(x) \in {"str", "int", "float", "bool", "none"}))
    [] T.k = "array" -> MCPArray_serialize_value(T, x)
    [] T.k = "object" -> SerializeObject(T, x)
    [] T.k = "union" -> MCPUnion_serialize_value(T, x)
    [] T.k = "optional" -> MCPOptional_serialize_value(T, x)

(***************************************************************************)
(* json.loads.  A text parses to the JSON value it is the text of; the     *)
(* JSON values looked for are those of JsonValues.                         *)
(***************************************************************************)
\* an envelope built without its attrs list
PointerEnvelopeNoAttrs(cls, h, attrs) ==
  DictV(<< <<StrV("__mcp_ptr__"), BoolV(TRUE)>>,
           <<StrV("type"), StrV(cls)>>,
           <<StrV("id"), StrV(h)>> >>)

\* {"__mcp_ptr__": True, "type": ..., "id": ..., "attrs": [...]}
PointerEnvelope(cls, h, attrs) ==
  DictV(<< <<StrV("__mcp_ptr__"), BoolV(TRUE)>>,
           <<StrV("type"), StrV(cls)>>,
           <<StrV("id"), StrV(h)>>,
           <<StrV("attrs"), ListV([i \in DOMAIN attrs |-> StrV(attrs[i])])>> >>)

TypeNames == {"Foo", "Bar"}

Envelopes ==
  {PointerEnvelope(ClassName(o), h, Attrs(o)) : o \in {"o1", "o2"}, h \in HandleUniverse}

\* the envelopes a client sends back
SentEnvelopes == {PointerEnvelope("O", h, Attrs("o1")) : h \in HandleUniverse}

\* payloads that carry the marker but are not well-formed envelopes: no id,
\* an empty id, an id that is a JSON array, and a marker next to an inline
\* type tag
OddEnvelopes ==
  {DictV(<< <<StrV("__mcp_ptr__"), BoolV(TRUE)>>, <<StrV("type"), StrV("O")>> >>),
   DictV(<< <<StrV("__mcp_ptr__"), BoolV(TRUE)>>, <<StrV("id"), StrV("")>> >>),
   DictV(<< <<StrV("__mcp_ptr__"), BoolV(TRUE)>>, <<StrV("id"), ListV(<<IntV(1)>>)>> >>)}
  \cup {DictV(<< <<StrV("__mcp_type__"), StrV("Bar")>>,
                 <<StrV("__mcp_ptr__"), BoolV(FALSE)>>,
                 <<StrV("id"), StrV(h)>> >>) : h \in {HandleOf(1), Unknown}}

TaggedPayloads ==
  {DictV(<< <<StrV("__mcp_type__"), StrV(T)>>, <<StrV("x"), IntV(1)>> >>) : T \in TypeNames}

PlainPayloads ==
  {DictV(<< <<StrV("x"), StrV("3")>>, <<StrV("y"), IntV(4)>> >>),
   ListV(<<IntV(1), StrV("x")>>), IntV(3), NoneV}

\* the JSON value json.dumps(x, default=str) writes: tuples become arrays,
\* keys become strings, anything else becomes the string str(x)
RECURSIVE ToJson(_)
ToJson(x) ==
  CASE TypeOf(x) \in {"int", "float", "bool", "none", "str"} -> x
    [] IsSequence(x) -> ListV([i \in DOMAIN Elements(x) |-> ToJson(Elements(x)[i])])
    [] TypeOf(x) = "dict" ->
         DictV([i \in DOMAIN ValOf(x) |->
                  <<StrV(JsonKeyText(ValOf(x)[i][1])), ToJson(ValOf(x)[i][2])>>])
    [] OTHER -> StrV(PyStr(x))

\* the Python values handed to the descriptors' serialize_value
TypeValues ==
  {IntV(5), IntV(0), FloatV(2), StrV("x"), StrV("5"), StrV(""), BoolV(TRUE), BoolV(FALSE),
   NoneV,
   ListV(<<StrV("3"), IntV(4)>>), ListV(<<IntV(1), IntV(2), IntV(3)>>), ListV(<<>>),
   TupleV(<<IntV(1)>>),
   DictV(<< <<StrV("x"), StrV("3")>>, <<StrV("y"), IntV(4)>> >>),
   DictV(<< <<StrV("x"), IntV(1)>>, <<StrV("y"), IntV(2)>>, <<StrV("z"), IntV(9)>> >>),
   DictV(<< <<TupleV(<<IntV(1), IntV(2)>>), IntV(3)>> >>),
   ObjV("o1")}

\* the type_name values MCPObject.serialize_value embeds
EmbeddedTags == {"Point", "object"}

\* the JSON values the descriptors write for TypeValues: the value itself, the
\* value lifted into a list, wrapped as {"value": ...}, and dicts with a tag
TypePayloads ==
  LET plain == {ToJson(v) : v \in {w \in TypeValues : ~JsonRaises(w, TRUE)}}
                 \cup {IntV(n) : n \in SmallInts}
                 \cup {DictV(AttrValues("o1"))}
      dicts == {d \in plain : TypeOf(d) = "dict"}
  IN plain
     \cup {ListV(<<v>>) : v \in plain}
     \cup {DictV(<< <<StrV("value"), v>>, <<StrV("__mcp_type__"), StrV(t)>> >>) :
              v \in plain, t \in EmbeddedTags}
     \cup {DictV(SetItem(ValOf(d), "__mcp_type__", StrV(t))) : d \in dicts, t \in EmbeddedTags}

JsonValues ==
  Envelopes \cup OddEnvelopes \cup TaggedPayloads \cup PlainPayloads \cup TypePayloads

ParseTable ==
  [s \in {JsonText(p) : p \in JsonValues} |-> CHOOSE p \in JsonValues : JsonText(p) = s]

json_loads(data) ==
  IF TypeOf(data) # "str" THEN Raise("TypeError")
  ELSE IF ValOf(data) \in DOMAIN ParseTable THEN Ok(ParseTable[ValOf(data)])
  ELSE Raise("JSONDecodeError")

(***************************************************************************)
(* ValueSerializer.serialize (value_serializer.py)                         *)
(***************************************************************************)
\* ValueSerializer() is always built with the default use_pointers=True
use_pointers == TRUE

\* which return statement of serialize the value reaches
SerializeBranch(x) ==
  IF TypeOf(x) = "dict" /\ HasKey(x, "__mcp_ptr__") THEN "envelope"
  ELSE IF TypeOf(x) \in {"int", "float", "str", "bool", "none"} THEN "primitive"
  ELSE IF TypeOf(x) \in {"list", "dict"} THEN "collection"
  ELSE IF use_pointers /\ HasAttrDict(x) THEN "pointer"
  ELSE "fallback"

\* serialize with the envelope returned as str(value) instead of json.dumps
SerializeInlineStr(x) ==
  CASE SerializeBranch(x) \in {"primitive", "collection"} ->
         serialize_value(convert_from_value(x), x)
    [] OTHER -> serialize_value(MCP_STRING, x)

\* the value serialize returns on the branches that leave the registry alone
SerializeInline(x) ==
  CASE SerializeBranch(x) = "envelope" -> json_dumps(x, FALSE)
    [] SerializeBranch(x) \in {"primitive", "collection"} ->
         serialize_value(convert_from_value(x), x)
    [] OTHER -> serialize_value(MCP_STRING, x)

\* the values given to serialize
SerializeInputs ==
  {IntV(1), BoolV(TRUE), StrV("x"), NoneV,
   ListV(<<IntV(1), StrV("x")>>), ListV(<<>>), TupleV(<<IntV(1)>>), SetV(<<IntV(1)>>),
   DictV(<< <<StrV("a"), IntV(1)>> >>),
   DictV(<< <<IntV(1), IntV(2)>> >>),
   DictV(<< <<TupleV(<<IntV(1), IntV(2)>>), IntV(3)>> >>),
   DictV(<< <<StrV("a"), ObjV("o1")>> >>),
   DictV(<< <<StrV("__mcp_ptr__"), BoolV(TRUE)>>, <<StrV("id"), StrV(Unknown)>>,
            <<StrV("x"), ObjV("o1")>> >>),
   ObjV("o1"), ObjV("o2"), ObjV("p1")}
  \cup SentEnvelopes

Serialize(x) ==
  /\ \A t \in Threads : pc[t] = "idle"
  /\ IF SerializeBranch(x) = "pointer"
       THEN /\ nextId <= MaxHandles
            /\ ValOf(x) \in owned
            /\ nextId' = nextId + 1
            /\ RegisterEffect(HandleOf(nextId), ValOf(x))
            /\ last' = IF Weakrefable(ValOf(x))
                         THEN LET out == json_dumps(PointerEnvelope(ClassName(ValOf(x)),
                                                      HandleOf(nextId), Attrs(ValOf(x))), FALSE)
                              IN Result("serialize", x, out.kind, out.val)
                         ELSE Result("serialize", x, "raise", "TypeError")
       ELSE /\ LET out == SerializeInline(x)
               IN last' = Result("serialize", x, out.kind, out.val)
            /\ UNCHANGED <<registry, nextId, issued>>
  /\ UNCHANGED <<server, heap, frames, removed, type_registry>>

(***************************************************************************)
(* TypeRegistry (mcp_types.py)                                             *)
(***************************************************************************)
TypeRegistryRegister(type_name, python_type) ==
  /\ type_registry' = Put(type_registry, type_name, python_type)
  /\ last' = Result("TypeRegistry.register", type_name, "ok", None)
  /\ UNCHANGED <<server, registry, heap, nextId, frames, issued, removed>>

(***************************************************************************)
(* MCPAny.deserialize_value and MCPObject.deserialize_value                *)
(***************************************************************************)
\* a value dict.get cannot hash: the lookup raises TypeError
Unhashable(x) == TypeOf(x) \in {"list", "dict", "set"}

\* pointer_registry.get(obj_id) for the id found in a payload
RegistryGet(idv) == IF TypeOf(idv) = "str" THEN get(ValOf(idv)) ELSE None

\* the `"__mcp_ptr__" in parsed` branch
ResolvePointer(parsed) ==
  LET idv == ItemOrNone(parsed, "id") IN
    IF Truthy(idv)
      THEN IF Unhashable(idv) THEN Raise("TypeError")   \* unhashable type
           ELSE IF RegistryGet(idv) # None THEN Ok(ObjV(RegistryGet(idv)))
           ELSE Raise("ValueError")      \* unknown object pointer
      ELSE Raise("ValueError")           \* pointer envelope missing id

\* the `"__mcp_type__" in parsed` branch
ReconstructTagged(parsed) ==
  LET type_name == Item(parsed, "__mcp_type__") IN
    IF TypeOf(type_name) = "str" /\ ValOf(type_name) \in DOMAIN type_registry
      THEN Ok(Instance(type_registry[ValOf(type_name)], Without(ValOf(parsed), "__mcp_type__")))
      ELSE Ok(parsed)

\* parsed = data if it is a dict, else json.loads(data)
ParsePayload(data) == IF TypeOf(data) = "dict" THEN Ok(data) ELSE json_loads(data)

MCPAny_deserialize_value(data) ==
  IF ParsePayload(data).kind = "raise" THEN Ok(data)
  ELSE LET parsed == ParsePayload(data).val IN
         IF TypeOf(parsed) = "dict" /\ HasKey(parsed, "__mcp_ptr__") THEN ResolvePointer(parsed)
         ELSE IF TypeOf(parsed) = "dict" /\ HasKey(parsed, "__mcp_type__")
           THEN ReconstructTagged(parsed)
         ELSE Ok(parsed)

MCPObject_deserialize_value(T, data) ==
  IF ParsePayload(data).kind = "raise" THEN Ok(DictV(<< <<StrV("value"), data>> >>))
  ELSE LET parsed == ParsePayload(data).val IN
         IF TypeOf(parsed) = "dict" /\ HasKey(parsed, "__mcp_ptr__") THEN ResolvePointer(parsed)
         ELSE IF TypeOf(parsed) = "dict" /\ HasKey(parsed, "__mcp_type__")
           THEN ReconstructTagged(parsed)
         ELSE IF TypeOf(parsed) = "dict" THEN Ok(parsed)
         ELSE Ok(DictV(<< <<StrV("value"), parsed>> >>))

(***************************************************************************)
(* deserialize_value of the other descriptors                              *)
(***************************************************************************)
MCPInt_deserialize_value(data) == PyInt(data)

MCPFloat_deserialize_value(data) == PyFloat(data)

\* MCPString.deserialize_value returning repr(data) instead of str(data)
MCPString_deserialize_repr(data) == Ok(StrV(PyRepr(data)))

MCPString_deserialize_value(data) == Ok(StrV(PyStr(data)))

MCPBool_deserialize_value(data) == Ok(BoolV(Truthy(data)))

MCPArray_deserialize_value(T, data) ==
  IF json_loads(data).kind = "raise" THEN Ok(ListV(<<data>>))
  ELSE LET parsed == json_loads(data).val IN
         IF TypeOf(parsed) = "list" THEN Ok(parsed) ELSE Ok(ListV(<<parsed>>))

MCPUnion_deserialize_value(T, data) ==
  IF json_loads(data).kind = "raise" THEN Ok(data) ELSE Ok(json_loads(data).val)

RECURSIVE deserialize_value(_, _)

\* MCPOptional.deserialize_value without the `data is None` test
MCPOptional_deserialize_always(T, data) == deserialize_value(T.inner_type, data)

\* MCPOptional.deserialize_value: both isinstance branches make the same call
MCPOptional_deserialize_value(T, data) ==
  IF TypeOf(data) = "none" THEN Ok(NoneV) ELSE deserialize_value(T.inner_type, data)

deserialize_value(T, data) ==
  CASE T.k = "int" -> MCPInt_deserialize_value(data)
    [] T.k = "float" -> MCPFloat_deserialize_value(data)
    [] T.k = "string" -> MCPString_deserialize_value(data)
    [] T.k = "bool" -> MCPBool_deserialize_value(data)
    [] T.k = "any" -> MCPAny_deserialize_value(data)
    [] T.k = "array" -> MCPArray_deserialize_value(T, data)
    [] T.k = "object" -> MCPObject_deserialize_value(T, data)
    [] T.k = "union" -> MCPUnion_deserialize_value(T, data)
    [] T.k = "optional" -> MCPOptional_deserialize_value(T, data)

\* the raw wire values handed to deserialize_value
WireInputs ==
  SentEnvelopes \cup OddEnvelopes \cup TaggedPayloads \cup PlainPayloads
  \cup {StrV(JsonText(p)) :
          p \in SentEnvelopes \cup TaggedPayloads
                \cup {DictV(<< <<StrV("x"), StrV("3")>>, <<StrV("y"), IntV(4)>> >>), IntV(3)}}
  \cup {StrV("hello")}

\* Object descriptors a tool declares
DeclaredObjects ==
  {MCPObject(<< <<StrV("x"), MCP_INT>>, <<StrV("y"), MCP_INT>> >>,
             <<StrV("x"), StrV("y")>>, tn) : tn \in {"Foo"}}

DeserializeAny(data) ==
  /\ LET out == MCPAny_deserialize_value(data)
     IN last' = Result("MCPAny.deserialize_value", data, out.kind, out.val)
  /\ UNCHANGED <<server, registry, heap, nextId, frames, issued, removed, type_registry>>

DeserializeObject(T, data) ==
  /\ LET out == MCPObject_deserialize_value(T, data)
     IN last' = Result("MCPObject.deserialize_value", <<T, data>>, out.kind, out.val)
  /\ UNCHANGED <<server, registry, heap, nextId, frames, issued, removed, type_registry>>

(***************************************************************************)
(* JSONSchemaBuilder (schema_builders.py).  A schema is a Python dict.     *)
(***************************************************************************)
\* type(mcp_type).__name__
TypeClassName(T) ==
  CASE T.k = "any" -> "MCPAny"
    [] T.k = "int" -> "MCPInt"
    [] T.k = "float" -> "MCPFloat"
    [] T.k = "string" -> "MCPString"
    [] T.k = "bool" -> "MCPBool"
    [] T.k = "array" -> "MCPArray"
    [] T.k = "object" -> "MCPObject"
    [] T.k = "union" -> "MCPUnion"
    [] T.k = "optional" -> "MCPOptional"
    [] OTHER -> "MCPOther"

\* hasattr(self, "_build_" + type_name)
HasBuilder(T) ==
  T.k \in {"any", "int", "float", "string", "bool", "array", "object", "union", "optional"}

\* {"type": t}
TypeSchema(t) == DictV(<< <<StrV("type"), StrV(t)>> >>)

\* {"type": "string", "description": d}
StringSchema(d) == DictV(<< <<StrV("type"), StrV("string")>>, <<StrV("description"), StrV(d)>> >>)

build_mcpany(T) == StringSchema("json-serialized value of any type")

build_mcparray(T) ==
  StringSchema("json-serialized array with items of type: " \o TypeClassName(T.items))

\* ", ".join(f"{name}: {type(prop_type).__name__}" for name, prop_type in properties.items())
RECURSIVE JoinProperties(_)
JoinProperties(props) ==
  IF props = <<>> THEN ""
  ELSE ValOf(props[1][1]) \o ": " \o TypeClassName(props[1][2])
         \o (IF Len(props) = 1 THEN "" ELSE ", " \o JoinProperties(Tail(props)))

build_mcpobject(T) ==
  StringSchema("json-serialized object"
    \o (IF T.type_name \notin {None, ""} THEN " of type " \o T.type_name ELSE "")
    \o (IF T.properties # <<>> THEN " with properties: " \o JoinProperties(T.properties) ELSE "")
    \o (IF T.description \notin {None, ""} THEN " - " \o T.description ELSE ""))

\* ', '.join(variant_types)
RECURSIVE JoinVariants(_)
JoinVariants(vs) ==
  IF vs = <<>> THEN ""
  ELSE TypeClassName(vs[1]) \o (IF Len(vs) = 1 THEN "" ELSE ", " \o JoinVariants(Tail(vs)))

build_mcpunion(T) ==
  StringSchema("json-serialized value that can be one of: " \o JoinVariants(T.variants))

\* {"anyOf": [inner_schema, {"type": "null"}]}
AnyOfNull(inner_schema) ==
  DictV(<< <<StrV("anyOf"), ListV(<<inner_schema, TypeSchema("null")>>)>> >>)

\* _build_mcpoptional that leaves the inner schema's description alone
OptionalSchemaPlain(inner_schema) == AnyOfNull(inner_schema)

\* _build_mcpoptional around the schema built for the inner type
OptionalSchema(inner_schema) ==
  AnyOfNull(IF HasKey(inner_schema, "description")
              THEN DictV(SetItem(ValOf(inner_schema), "description",
                                 StrV(ValOf(Item(inner_schema, "description"))
                                      \o " (optional, can be null)")))
              ELSE inner_schema)

\* JSONSchemaBuilder.build / _dispatch
RECURSIVE build(_)
build(T) ==
  IF ~HasBuilder(T) THEN Raise("ValueError")      \* unsupported mcp type
  ELSE CASE T.k = "any" -> Ok(build_mcpany(T))
         [] T.k = "int" -> Ok(TypeSchema("integer"))
         [] T.k = "float" -> Ok(TypeSchema("number"))
         [] T.k = "string" -> Ok(TypeSchema("string"))
         [] T.k = "bool" -> Ok(TypeSchema("boolean"))
         [] T.k = "array" -> Ok(build_mcparray(T))
         [] T.k = "object" -> Ok(build_mcpobject(T))
         [] T.k = "union" -> Ok(build_mcpunion(T))
         [] T.k = "optional" ->
              IF build(T.inner_type).kind = "raise" THEN build(T.inner_type)
              ELSE Ok(OptionalSchema(build(T.inner_type).val))

(***************************************************************************)
(* The descriptors on their own: serialize_value, deserialize_value, the   *)
(* value inference and the schema builder applied to declared descriptors. *)
(***************************************************************************)
Point ==
  MCPObject(<< <<StrV("x"), MCP_INT>>, <<StrV("y"), MCP_INT>> >>, <<StrV("x"), StrV("y")>>,
            "Point")

OnlyA == MCPObject(<< <<StrV("a"), MCP_INT>> >>, <<StrV("a")>>, None)

BaseDescriptors ==
  {MCP_INT, MCP_FLOAT, MCP_STRING, MCP_BOOL, MCP_ANY,
   MCPArray(MCP_INT), MCPArray(MCP_STRING), Point, OnlyA,
   MCPUnion(<<MCP_INT, MCP_STRING>>), MCPUnion(<<MCP_STRING, MCP_INT>>),
   MCPUnion(<<Point, MCP_STRING>>)}

Descriptors ==
  BaseDescriptors \cup {MCPOptional(D) : D \in BaseDescriptors}
  \cup {MCPOptional(MCPOptional(MCP_INT))}

\* the wire values handed to the descriptors' deserialize_value
TypeWireValues ==
  {IntV(5), FloatV(2), StrV("x"), StrV("5"), StrV("3"), StrV(""), BoolV(TRUE), BoolV(FALSE),
   NoneV,
   ListV(<<StrV("3"), IntV(4)>>),
   DictV(<< <<StrV("x"), StrV("3")>>, <<StrV("y"), IntV(4)>> >>),
   DictV(<< <<StrV("x"), IntV(1)>>, <<StrV("y"), IntV(2)>>, <<StrV("z"), IntV(9)>> >>),
   DictV(<< <<StrV("__mcp_type__"), StrV("Point")>>, <<StrV("x"), StrV("3")>> >>),
   DictV(<< <<StrV("__mcp_type__"), StrV("Bar")>>, <<StrV("x"), IntV(1)>> >>),
   StrV("{\"x\": \"3\", \"y\": 4}"), StrV("[\"3\", 4]"), StrV("[1, 2, 3]"), StrV("[]"),
   StrV("{\"__mcp_type__\": \"Bar\", \"x\": 1}")}

SerializeValue(T, x) ==
  /\ LET out == serialize_value(T, x)
     IN last' = Result("serialize_value", <<T, x>>, out.kind, out.val)
  /\ UNCHANGED <<server, registry, heap, nextId, frames, issued, removed, type_registry>>

DeserializeValue(T, data) ==
  /\ LET out == deserialize_value(T, data)
     IN last' = Result("deserialize_value", <<T, data>>, out.kind, out.val)
  /\ UNCHANGED <<server, registry, heap, nextId, frames, issued, removed, type_registry>>

\* the wire value serialize_value just returned goes back through
\* deserialize_value of the same descriptor
DeserializeReturned ==
  /\ OpOf(last) = "serialize_value"
  /\ KindOf(last) = "ok"
  /\ LET out == deserialize_value(ArgOf(last)[1], ValueOf(last))
     IN last' = Result("round_trip", ArgOf(last), out.kind, out.val)
  /\ UNCHANGED <<server, registry, heap, nextId, frames, issued, removed, type_registry>>

\* TypeConverter.convert_from_value(value)
Infer(x) ==
  /\ last' = Result("convert_from_value", x, "ok", convert_from_value(x))
  /\ UNCHANGED <<server, registry, heap, nextId, frames, issued, removed, type_registry>>

\* json_schema_builder.build(mcp_type)
Build(T) ==
  /\ last' = Result("build", T, build(T).kind, build(T).val)
  /\ UNCHANGED <<server, registry, heap, nextId, frames, issued, removed, type_registry>>

\* the descriptors handed to build: the declared ones, a twice-optional
\* array and two with a class the builder has no method for
BuildInputs ==
  Descriptors \cup {MCP_OTHER, MCPOptional(MCP_OTHER),
                    MCPOptional(MCPOptional(MCPArray(MCP_INT)))}

\* the values given to the engine that are no attribute-bearing objects
BareInputs == {x \in TypeValues : TypeOf(x) # "obj"}

NextTypes ==
  \/ \E T \in Descriptors, x \in TypeValues : SerializeValue(T, x)
  \/ \E T \in Descriptors, data \in TypeWireValues : DeserializeValue(T, data)
  \/ DeserializeReturned
  \/ \E x \in TypeValues : Infer(x)
  \/ \E T \in BuildInputs : Build(T)
  \/ \E x \in BareInputs : Serialize(x)

SpecTypes == Init /\ [][NextTypes]_vars

Next ==
  \/ \E t \in Threads, o \in Objects : RegisterCall(t, o)
  \/ \E t \in Threads : RegisterLocked(t)
  \/ \E h \in HandleUniverse : Get(h)
  \/ Size
  \/ \E h \in HandleUniverse : Unregister(h)
  \/ Clear
  \/ \E o \in Objects : Drop(o)
  \/ \E o \in Objects : Collect(o)

Spec == Init /\ [][Next]_vars

\* the serialization engine over the registry, one caller
NextEngine ==
  \/ \E x \in SerializeInputs : Serialize(x)
  \/ \E data \in WireInputs : DeserializeAny(data)
  \/ \E T \in DeclaredObjects, data \in WireInputs : DeserializeObject(T, data)
  \/ \E h \in HandleUniverse : Unregister(h)
  \/ Clear
  \/ TypeRegistryRegister("Bar", "O")

SpecEngine == Init /\ [][NextEngine]_vars

(***************************************************************************)
(* Tools (function_schema.py, mcpify.py).  A Python dict keyed by tool     *)
(* name is a sequence of <<name, value>> pairs in insertion order.         *)
(***************************************************************************)
\* how many tool functions handle_call_tool invokes in one run
MaxCalls == 2

Names(d) == {d[i][1] : i \in DOMAIN d}

\* d[name]
At(d, name) == d[CHOOSE i \in DOMAIN d : d[i][1] = name][2]

\* d[name] = value
Store(d, name, value) ==
  IF name \in Names(d)
    THEN [i \in DOMAIN d |-> IF d[i][1] = name THEN <<name, value>> ELSE d[i]]
    ELSE Append(d, <<name, value>>)

\* function_schema.Parameter; default_value is read by nothing
Parameter(name, type, is_required, description, is_positional) ==
  [name |-> name, type |-> type, is_required |-> is_required, description |-> description,
   is_positional |-> is_positional]

\* return_type=None
NoReturnType == [k |-> "none"]

FunctionSchema(name, description, parameters, return_type) ==
  [name |-> name, description |-> description, parameters |-> parameters,
   return_type |-> return_type]

FunctionTool(func, schema) == [cls |-> "FunctionTool", func |-> func, schema |-> schema]

ToolHolder(tl, sc) == [cls |-> "ToolHolder", tools |-> tl, schemas |-> sc]

(***************************************************************************)
(* FunctionSchema.to_mcp_tool and handle_list_tools                        *)
(***************************************************************************)
\* properties[param.name] without the parameter's description
ParamPropertyPlain(param, built) == built

\* properties[param.name]: the built schema, its description overwritten by
\* the parameter's when the parameter has one
ParamProperty(param, built) ==
  IF param.description \notin {None, ""}
    THEN DictV(SetItem(ValOf(built), "description", StrV(param.description)))
    ELSE built

\* the loop of to_mcp_tool over the parameters: [kind, properties, required]
RECURSIVE ToolProperties(_, _, _)
ToolProperties(params, properties, required) ==
  IF params = <<>> THEN [kind |-> "ok", properties |-> properties, required |-> required]
  ELSE LET param == Head(params) IN
         IF build(param.type).kind = "raise"
           THEN [kind |-> "raise", properties |-> properties, required |-> required]
           ELSE ToolProperties(Tail(params),
                  SetItem(properties, param.name, ParamProperty(param, build(param.type).val)),
                  IF param.is_required THEN Append(required, StrV(param.name)) ELSE required)

\* Tool(name=..., description=..., inputSchema={...})
to_mcp_tool(schema) ==
  LET p == ToolProperties(schema.parameters, <<>>, <<>>) IN
    IF p.kind = "raise" THEN Raise("ValueError")
    ELSE Ok([name |-> schema.name, description |-> schema.description,
             inputSchema |-> DictV(<< <<StrV("type"), StrV("object")>>,
                                      <<StrV("properties"), DictV(p.properties)>>,
                                      <<StrV("required"), ListV(p.required)>> >>)])

\* [schema.to_mcp_tool() for schema in self.tool_holder.schemas.values()]
ListTools ==
  /\ IF \E i \in DOMAIN schemas : to_mcp_tool(schemas[i][2]).kind = "raise"
       THEN last' = Result("list_tools", None, "raise", "ValueError")
       ELSE last' = Result("list_tools", None, "ok",
                           [i \in DOMAIN schemas |-> to_mcp_tool(schemas[i][2]).val])
  /\ UNCHANGED <<server, registry, heap, nextId, frames, issued, removed, type_registry>>

(***************************************************************************)
(* The callables given as tools.                                           *)
(*   add      example_tools.add(a: int, b: int)                            *)
(*   Person   the class example_tools.Person(name: str, age: int)          *)
(*   getattr  the builtin, with the parameters of BUILTIN_SCHEMAS          *)
(*   lookup   def lookup(key: str): return SHARED[key], where SHARED is    *)
(*            {"o": o1, "p": p1}                                           *)
(*   "5"      a value that is not callable                                 *)
(***************************************************************************)
Funcs == {"add", "Person", "getattr", "lookup"}

\* callable(func)
Callable(func) == func \in Funcs

\* inspect.isclass(func)
IsClass(func) == func = "Person"

KwNames(kw) == {ValOf(kw[i][1]) : i \in DOMAIN kw}

\* self._func(*positional_args, **remaining_kwargs)
CallFunc(func, pos, kw) ==
  CASE func = "add" ->
         IF pos = <<>> /\ KwNames(kw) = {"a", "b"}
           THEN Ok(IntV(ValOf(Item(DictV(kw), "a")) + ValOf(Item(DictV(kw), "b"))))
           ELSE Raise("TypeError")
    [] func = "Person" ->
         IF pos = <<>> /\ KwNames(kw) = {"name", "age"}
           THEN Ok(Instance("Person", kw))
           ELSE Raise("TypeError")
    [] func = "lookup" ->
         IF pos = <<>> /\ KwNames(kw) = {"key"}
           THEN IF Item(DictV(kw), "key") = StrV("o") THEN Ok(ObjV("o1"))
                ELSE IF Item(DictV(kw), "key") = StrV("p") THEN Ok(ObjV("p1"))
                ELSE Raise("KeyError")
           ELSE Raise("TypeError")
    [] func = "getattr" ->
         IF kw # <<>> \/ Len(pos) \notin {2, 3} \/ TypeOf(pos[2]) # "str"
           THEN Raise("TypeError")
         ELSE IF HasAttrDict(pos[1]) /\ HasKey(DictV(AttrDict(pos[1])), ValOf(pos[2]))
           THEN Ok(Item(DictV(AttrDict(pos[1])), ValOf(pos[2])))
         ELSE IF Len(pos) = 3 THEN Ok(pos[3])
         ELSE Raise("AttributeError")

\* FunctionTool.__call__(function_args) with the one dict argument the
\* handler passes
FunctionTool_call(tool, function_args) ==
  LET params == tool.schema.parameters
      present(positional) ==
        SelectSeq(params, LAMBDA q : q.is_positional = positional
                                      /\ HasKey(function_args, q.name))
      positional_args ==
        [i \in DOMAIN present(TRUE) |-> Item(function_args, present(TRUE)[i].name)]
      remaining_kwargs ==
        [i \in DOMAIN present(FALSE) |->
           <<StrV(present(FALSE)[i].name), Item(function_args, present(FALSE)[i].name)>>]
  IN IF \E i \in DOMAIN params : params[i].is_positional
       THEN CallFunc(tool.func, positional_args, remaining_kwargs)
       ELSE CallFunc(tool.func, <<>>, ValOf(function_args))

\* the schemas of the callables: those inspect_callable makes, Person's
\* given a return type with a type name
AddSchema ==
  FunctionSchema("add", "add two numbers",
                 <<Parameter("a", MCP_INT, TRUE, None, FALSE),
                   Parameter("b", MCP_INT, TRUE, None, FALSE)>>, NoReturnType)

PersonSchema ==
  FunctionSchema("Person", "person with name and age",
                 <<Parameter("name", MCP_STRING, TRUE, None, FALSE),
                   Parameter("age", MCP_INT, TRUE, None, FALSE)>>,
                 MCPObject(<<>>, <<>>, "PersonType"))

GetattrSchema ==
  FunctionSchema("getattr", "call getattr",
                 <<Parameter("obj", MCP_ANY, TRUE, "object to get attribute from", TRUE),
                   Parameter("name", MCP_STRING, TRUE, "attribute name", TRUE),
                   Parameter("default", MCP_ANY, FALSE,
                             "default value if attribute not found", TRUE)>>, NoReturnType)

LookupSchema ==
  FunctionSchema("lookup", "call lookup",
                 <<Parameter("key", MCP_STRING, TRUE, None, FALSE)>>, NoReturnType)

\* a schema without a name
UnnamedSchema == FunctionSchema("", "call", <<>>, NoReturnType)

AddFn == FunctionTool("add", AddSchema)

PersonNew == FunctionTool("Person", PersonSchema)

GetattrFn == FunctionTool("getattr", GetattrSchema)

LookupFn == FunctionTool("lookup", LookupSchema)

\* a second tool whose schema is named "add"
OtherAdd == FunctionTool("lookup", FunctionSchema("add", "call lookup",
                                                   LookupSchema.parameters, NoReturnType))

UnnamedFn == FunctionTool("lookup", UnnamedSchema)

\* a holder built by add_tool(schema.name, func, schema) for each tool of ts
HolderOf(ts) ==
  ToolHolder([i \in DOMAIN ts |-> <<ts[i].schema.name, ts[i]>>],
             [i \in DOMAIN ts |-> <<ts[i].schema.name, ts[i].schema>>])

\* an operand that is neither a FunctionTool nor a ToolHolder
NotATool == [cls |-> "int"]

(***************************************************************************)
(* ToolHolder.add_tool, __ior__, __iadd__ and McpifiedServer.__iadd__,     *)
(* __ior__.  The target is the server's tool_holder.                       *)
(***************************************************************************)
\* the two TypeRegistry.register calls of add_tool
AddToolTypes(name, func, schema) ==
  LET first == IF IsClass(func) THEN Put(type_registry, name, func) ELSE type_registry
      rt == schema.return_type
  IN IF rt # NoReturnType /\ "type_name" \in DOMAIN rt /\ rt.type_name \notin {None, ""}
          /\ IsClass(func)
       THEN Put(first, rt.type_name, func)
       ELSE first

AddTool(name, func, schema) ==
  /\ IF name = "" \/ ~Callable(func) \/ name \in Names(tools)
       THEN /\ last' = Result("add_tool", <<name, func, schema>>, "raise", "ToolError")
            /\ UNCHANGED <<tools, schemas, type_registry>>
       ELSE /\ type_registry' = AddToolTypes(name, func, schema)
            /\ tools' = Store(tools, name, FunctionTool(func, schema))
            /\ schemas' = Store(schemas, name, schema)
            /\ last' = Result("add_tool", <<name, func, schema>>, "ok", None)
  /\ UNCHANGED <<registry, heap, nextId, frames, issued, removed, calls, received>>

\* for name, tool in other.tools.items(): raise if the name is taken, else
\* copy the tool and its schema.  [kind, tools, schemas] when the loop ends
RECURSIVE MergeLoop(_, _, _, _)
MergeLoop(tl, sc, rest, other_schemas) ==
  IF rest = <<>> THEN [kind |-> "ok", tools |-> tl, schemas |-> sc]
  ELSE IF Head(rest)[1] \in Names(tl) THEN [kind |-> "raise", tools |-> tl, schemas |-> sc]
  ELSE MergeLoop(Store(tl, Head(rest)[1], Head(rest)[2]),
                 Store(sc, Head(rest)[1], At(other_schemas, Head(rest)[1])),
                 Tail(rest), other_schemas)

\* the FunctionTool branch of __iadd__: [kind, tools, schemas]
AddOne(tl, sc, other) ==
  IF other.schema.name = "" \/ other.schema.name \in Names(tl)
    THEN [kind |-> "raise", tools |-> tl, schemas |-> sc]
    ELSE [kind |-> "ok", tools |-> Store(tl, other.schema.name, other),
          schemas |-> Store(sc, other.schema.name, other.schema)]

\* the target after a merge, and the call's result
Merged(op, other, m) ==
  /\ tools' = m.tools
  /\ schemas' = m.schemas
  /\ last' = Result(op, other, m.kind, IF m.kind = "ok" THEN None ELSE "ToolError")

Rejected == [kind |-> "raise", tools |-> tools, schemas |-> schemas]

\* ToolHolder.__ior__
HolderIor(other) ==
  /\ Merged("ToolHolder.__ior__", other,
            IF other.cls # "ToolHolder" THEN Rejected
            ELSE MergeLoop(tools, schemas, other.tools, other.schemas))
  /\ UNCHANGED <<registry, heap, nextId, frames, issued, removed, type_registry, calls,
                 received>>

\* ToolHolder.__iadd__
HolderIadd(other) ==
  /\ Merged("ToolHolder.__iadd__", other,
            IF other.cls # "FunctionTool" THEN Rejected ELSE AddOne(tools, schemas, other))
  /\ UNCHANGED <<registry, heap, nextId, frames, issued, removed, type_registry, calls,
                 received>>

\* McpifiedServer.__iadd__
ServerIadd(other) ==
  /\ Merged("McpifiedServer.__iadd__", other,
            IF other.cls = "FunctionTool" THEN AddOne(tools, schemas, other)
            ELSE IF other.cls = "ToolHolder"
              THEN MergeLoop(tools, schemas, other.tools, other.schemas)
            ELSE Rejected)
  /\ UNCHANGED <<registry, heap, nextId, frames, issued, removed, type_registry, calls,
                 received>>

\* McpifiedServer.__ior__
ServerIor(other) ==
  /\ Merged("McpifiedServer.__ior__", other,
            IF other.cls # "ToolHolder" THEN Rejected
            ELSE MergeLoop(tools, schemas, other.tools, other.schemas))
  /\ UNCHANGED <<registry, heap, nextId, frames, issued, removed, type_registry, calls,
                 received>>

(***************************************************************************)
(* McpifiedServer.handle_call_tool                                         *)
(***************************************************************************)
\* deserialized_args after one more parameter: the exception of d, of the
\* rest of the loop, or the rest with d stored under name
ArgStep(name, d, rest) ==
  IF d.kind = "raise" THEN d
  ELSE IF rest.kind = "raise" THEN rest
  ELSE Ok(DictV(<< <<StrV(name), d.val>> >> \o ValOf(rest.val)))

\* one more parameter, with None stored where deserialize_value raised
ArgStepLenient(name, d, rest) ==
  Ok(DictV(<< <<StrV(name), IF d.kind = "raise" THEN NoneV ELSE d.val>> >> \o ValOf(rest.val)))

\* the loop over schema.parameters that puts None where deserialize_value raises
RECURSIVE DeserializeArgsLenient(_, _)
DeserializeArgsLenient(params, raw_args) ==
  IF params = <<>> THEN Ok(DictV(<<>>))
  ELSE IF ~HasKey(raw_args, Head(params).name)
    THEN DeserializeArgsLenient(Tail(params), raw_args)
  ELSE ArgStepLenient(Head(params).name,
                      deserialize_value(Head(params).type, Item(raw_args, Head(params).name)),
                      DeserializeArgsLenient(Tail(params), raw_args))

\* the loop over schema.parameters: the deserialized arguments, or the first
\* exception a deserialize_value raises
RECURSIVE DeserializeArgs(_, _)
DeserializeArgs(params, raw_args) ==
  IF params = <<>> THEN Ok(DictV(<<>>))
  ELSE IF ~HasKey(raw_args, Head(params).name) THEN DeserializeArgs(Tail(params), raw_args)
  ELSE ArgStep(Head(params).name,
               deserialize_value(Head(params).type, Item(raw_args, Head(params).name)),
               DeserializeArgs(Tail(params), raw_args))

\* await tool(deserialized_args), when deserialization raised nothing
Invoke(tool, d) ==
  IF d.kind = "raise" THEN [invoked |-> FALSE, args |-> DictV(<<>>), result |-> d]
  ELSE [invoked |-> TRUE, args |-> d.val, result |-> FunctionTool_call(tool, d.val)]

\* the try block up to `result = await tool(deserialized_args)`: whether the
\* tool function was invoked, with what, and what it returned or what was raised
CallOutcome(name, arguments) ==
  IF name \notin Names(tools)
    THEN [invoked |-> FALSE, args |-> DictV(<<>>), result |-> Raise("ToolError")]
  ELSE Invoke(At(tools, name),
              DeserializeArgs(At(schemas, name).parameters,
                              IF Truthy(arguments) THEN arguments ELSE DictV(<<>>)))

\* the text of the except branch; the exception's message is its class
ErrorText(e) == "error: " \o e

\* result_text for what serialize returned, or the except branch's text
ResultText(out) ==
  IF out.kind = "raise" THEN ErrorText(out.val)
  ELSE IF TypeOf(out.val) = "str" THEN ValOf(out.val)
  ELSE JsonText(out.val)

\* serialize(result) on the branches that leave the registry alone
SerializeResult(result) ==
  IF result.kind = "raise" THEN result ELSE SerializeInline(result.val)

\* the inbound argument bags
CallBags ==
  {NoneV,
   DictV(<< <<StrV("a"), StrV("3")>>, <<StrV("b"), IntV(2)>> >>),
   DictV(<< <<StrV("a"), StrV("3")>>, <<StrV("b"), StrV("x")>> >>),
   DictV(<< <<StrV("obj"), PointerEnvelope("O", HandleOf(1), Attrs("o1"))>>,
            <<StrV("name"), StrV("a")>> >>),
   DictV(<< <<StrV("obj"), StrV(JsonText(PointerEnvelope("O", Unknown, Attrs("o1"))))>>,
            <<StrV("name"), StrV("a")>> >>),
   DictV(<< <<StrV("key"), StrV("o")>> >>),
   DictV(<< <<StrV("key"), StrV("p")>> >>),
   DictV(<< <<StrV("key"), StrV("q")>>, <<StrV("z"), IntV(1)>> >>),
   DictV(<< <<StrV("name"), StrV("x")>> >>)}

\* the handler once the tool has returned or something was raised: c is the
\* outcome of the call, inline what serialize makes of it without the registry
Respond(name, arguments, c, inline) ==
  /\ c.invoked => calls < MaxCalls
  /\ calls' = IF c.invoked THEN calls + 1 ELSE calls
  /\ received' = IF c.invoked THEN <<name, c.args>> ELSE received
  /\ IF c.result.kind = "ok" /\ SerializeBranch(c.result.val) = "pointer"
       THEN /\ nextId <= MaxHandles
            /\ ValOf(c.result.val) \in owned
            /\ nextId' = nextId + 1
            /\ RegisterEffect(HandleOf(nextId), ValOf(c.result.val))
            /\ last' = Result("call_tool", <<name, arguments>>, "ok",
                              StrV(IF Weakrefable(ValOf(c.result.val))
                                     THEN JsonText(PointerEnvelope(
                                            ClassName(ValOf(c.result.val)), HandleOf(nextId),
                                            Attrs(ValOf(c.result.val))))
                                     ELSE ErrorText("TypeError")))
       ELSE /\ last' = Result("call_tool", <<name, arguments>>, "ok", StrV(ResultText(inline)))
            /\ UNCHANGED <<registry, nextId, issued>>
  /\ UNCHANGED <<heap, frames, removed, type_registry, tools, schemas>>

\* handle_call_tool(name, arguments)
CallTool(name, arguments) ==
  /\ \A t \in Threads : pc[t] = "idle"
  /\ Respond(name, arguments, CallOutcome(name, arguments),
             SerializeResult(CallOutcome(name, arguments).result))

\* what add_tool is called with
AddToolInputs ==
  {<<t.schema.name, t.func, t.schema>> : t \in {AddFn, PersonNew, GetattrFn, LookupFn}}
  \cup {<<"add", "lookup", LookupSchema>>, <<"", "add", AddSchema>>, <<"add2", "5", AddSchema>>}

\* the operands of |= and +=
Operands ==
  {AddFn, GetattrFn, OtherAdd, UnnamedFn, NotATool,
   HolderOf(<<>>), HolderOf(<<LookupFn, AddFn>>), HolderOf(<<PersonNew, OtherAdd>>),
   HolderOf(<<GetattrFn>>)}

ToolNames == {"add", "Person", "getattr", "lookup", "nope"}

\* registering and listing tools
NextTools ==
  \/ \E i \in AddToolInputs : AddTool(i[1], i[2], i[3])
  \/ \E other \in Operands : HolderIor(other)
  \/ \E other \in Operands : HolderIadd(other)
  \/ \E other \in Operands : ServerIadd(other)
  \/ \E other \in Operands : ServerIor(other)
  \/ ListTools

SpecTools == Init /\ [][NextTools]_vars

\* the holders mcpify merges into the server before it runs
ServedHolders == {HolderOf(<<AddFn, LookupFn>>), HolderOf(<<GetattrFn, PersonNew>>)}

\* a server that is given its tools and then answers calls
NextCalls ==
  \/ \E other \in ServedHolders : ServerIor(other)
  \/ \E name \in ToolNames, arguments \in CallBags : CallTool(name, arguments)

SpecCalls == Init /\ [][NextCalls]_vars

(***************************************************************************)
(* The specification's claims                                              *)
(***************************************************************************)
\* the handles register has returned and nothing has removed since
LiveIssued == {e \in issued : e.h \notin removed}

IsLive(h) == \E e \in LiveIssued : e.h = h

IssuedFor(h) == (CHOOSE e \in LiveIssued : e.h = h).obj

\* C1: get(h) is the object register returned h for exactly when h was issued
\* and not removed since, every other handle gets None (not_found), and size()
\* is the number of live handles.
C1_GetAndSizeFollowIssuedHandles ==
  /\ \A h \in HandleUniverse : get(h) = IF IsLive(h) THEN IssuedFor(h) ELSE None
  /\ size = Cardinality({e.h : e \in LiveIssued})

\* C2: the registry alone never keeps an object alive: an object with an
\* installed cleanup hook that every owner other than the registry has dropped
\* is unreachable.
C2_RegistryNeverKeepsAlive ==
  \A h \in DOMAIN hooks :
    (hooks[h].alive /\ hooks[h].obj \notin owned /\ ~InFrame(hooks[h].obj))
      => ~Reachable(hooks[h].obj)

\* C3: every register call, under any interleaving, returns a handle; the
\* handles returned are pairwise distinct, and each is in the table and resolves
\* to the object it was returned for until it is removed.
C3_RegisterReturnsDistinctHandles ==
  /\ OpOf(last) = "register" =>
       /\ KindOf(last) = "ok"
       /\ ValueOf(last) \in DOMAIN objects
       /\ objects[ValueOf(last)] = ArgOf(last)
  /\ \A e1, e2 \in issued : e1.h = e2.h => e1 = e2
  /\ \A e \in LiveIssued : e.h \in DOMAIN objects /\ objects[e.h] = e.obj

\* C4: unregister(h) of a live handle removes the entry, detaches its hook and
\* returns TRUE; of any other handle (removed before, or never issued) it
\* returns FALSE and changes nothing; no other handle is touched; a detached
\* hook never fires.
C4_UnregisterIdempotent ==
  [][/\ \A h \in HandleUniverse :
          Unregister(h) =>
            IF IsLive(h)
              THEN /\ ValueOf(last') = TRUE
                   /\ h \notin DOMAIN objects'
                   /\ h \notin finalizers'
                   /\ ~hooks'[h].alive
                   /\ \A g \in DOMAIN objects \ {h} :
                        g \in DOMAIN objects' /\ objects'[g] = objects[g]
                   /\ \A g \in DOMAIN hooks \ {h} : hooks'[g] = hooks[g]
                   /\ finalizers' = finalizers \ {h}
              ELSE /\ ValueOf(last') = FALSE
                   /\ registry' = registry
     /\ \A h \in DOMAIN hooks : (~hooks[h].alive /\ h \notin fired) => h \notin fired'
    ]_vars

\* C5: register never raises and never leaves an entry stored without its
\* cleanup hook.
C5_RegisterNeverFails ==
  /\ ~(OpOf(last) = "register" /\ KindOf(last) = "raise")
  /\ DOMAIN objects \subseteq finalizers

\* a plain attribute-bearing object: an instance of an ordinary class
Plain(o) == HasDict(o) /\ Weakrefable(o)

EnvelopeKeys == {StrV("__mcp_ptr__"), StrV("type"), StrV("id"), StrV("attrs")}

\* C6: serializing a plain attribute-bearing object returns the JSON text of an
\* object with exactly the keys __mcp_ptr__ (true), type, id and attrs, adds
\* exactly one handle that was never in use before, and that id resolves to the
\* object itself.
C6_PlainObjectYieldsEnvelope ==
  [][\A o \in {p \in Objects : Plain(p)} :
       (OpOf(last') = "serialize" /\ ArgOf(last') = ObjV(o) /\ Serialize(ObjV(o))) =>
         /\ KindOf(last') = "ok"
         /\ json_loads(ValueOf(last')).kind = "ok"
         /\ LET env == json_loads(ValueOf(last')).val
                id == ValOf(Item(env, "id"))
            IN /\ TypeOf(env) = "dict"
               /\ Len(ValOf(env)) = 4
               /\ Keys(env) = EnvelopeKeys
               /\ Item(env, "__mcp_ptr__") = BoolV(TRUE)
               /\ TypeOf(Item(env, "type")) = "str"
               /\ TypeOf(Item(env, "id")) = "str"
               /\ TypeOf(Item(env, "attrs")) = "list"
               /\ \A i \in DOMAIN ValOf(Item(env, "attrs")) :
                    TypeOf(ValOf(Item(env, "attrs"))[i]) = "str"
               /\ id \notin DOMAIN objects
               /\ id \notin removed
               /\ DOMAIN objects' = DOMAIN objects \cup {id}
               /\ objects'[id] = o
               /\ \A g \in DOMAIN objects : objects'[g] = objects[g]
    ]_vars

C6_Witness ==
  /\ OpOf(last) = "serialize"
  /\ ArgOf(last) = ObjV("o2")
  /\ KindOf(last) = "ok"
  /\ size = 2
  /\ get(ValOf(Item(json_loads(ValueOf(last)).val, "id"))) = "o2"

\* the value is a dict that carries the pointer-envelope marker
IsEnvelopePayload(x) == TypeOf(x) = "dict" /\ HasKey(x, "__mcp_ptr__")

\* the value is a well-formed pointer envelope: exactly the four keys, the
\* marker true, type and id strings, attrs a list of strings
IsPointerEnvelope(x) ==
  /\ IsEnvelopePayload(x)
  /\ Len(ValOf(x)) = 4
  /\ Keys(x) = EnvelopeKeys
  /\ Item(x, "__mcp_ptr__") = BoolV(TRUE)
  /\ TypeOf(Item(x, "type")) = "str"
  /\ TypeOf(Item(x, "id")) = "str"
  /\ TypeOf(Item(x, "attrs")) = "list"
  /\ \A i \in DOMAIN ValOf(Item(x, "attrs")) : TypeOf(ValOf(Item(x, "attrs"))[i]) = "str"

\* the pointer envelopes among the values given to serialize
PassingEnvelopes == {y \in SerializeInputs : IsPointerEnvelope(y)}

\* C7: serialize of a value that already is a pointer envelope registers
\* nothing (the table, its handle set and size, and the handles drawn are as
\* before), and returns the text of an envelope that carries the id of the
\* input.
C7_EnvelopePassesThrough ==
  [][\A x \in PassingEnvelopes :
       (OpOf(last') = "serialize" /\ ArgOf(last') = x /\ Serialize(x)) =>
         /\ registry' = registry
         /\ DOMAIN objects' = DOMAIN objects
         /\ nextId' = nextId
         /\ issued' = issued
         /\ KindOf(last') = "ok"
         /\ json_loads(ValueOf(last')).kind = "ok"
         /\ IsPointerEnvelope(json_loads(ValueOf(last')).val)
         /\ Item(json_loads(ValueOf(last')).val, "id") = Item(x, "id")
    ]_vars

C7_Witness ==
  /\ OpOf(last) = "serialize"
  /\ IsPointerEnvelope(ArgOf(last))
  /\ KindOf(last) = "ok"
  /\ ValOf(Item(ArgOf(last), "id")) \in DOMAIN objects
  /\ size = 1
  /\ Item(json_loads(ValueOf(last)).val, "id") = Item(ArgOf(last), "id")

\* C8: serialize returns a wire value for every input and never raises.
C8_SerializeTotal == OpOf(last) = "serialize" => KindOf(last) = "ok"

\* the payload, once parsed, is a dict that carries the marker
CarriesMarker(data) ==
  /\ ParsePayload(data).kind = "ok"
  /\ IsEnvelopePayload(ParsePayload(data).val)

\* the wire values that carry the marker
MarkedInputs == {d \in WireInputs : CarriesMarker(d)}

\* C9: MCPAny.deserialize_value of a payload carrying the marker returns the
\* object registered under the envelope's id when that id is live, and raises
\* the unknown-reference error when it is not (never issued, unregistered or
\* cleared), also when the payload carries a type tag; the registry is unchanged.
C9_AnyResolvesLiveHandlesOnly ==
  [][\A data \in MarkedInputs :
       (OpOf(last') = "MCPAny.deserialize_value" /\ ArgOf(last') = data
          /\ DeserializeAny(data)) =>
         LET idv == ItemOrNone(ParsePayload(data).val, "id") IN
           /\ registry' = registry
           /\ IF TypeOf(idv) = "str" /\ IsLive(ValOf(idv))
                THEN KindOf(last') = "ok" /\ ValueOf(last') = ObjV(IssuedFor(ValOf(idv)))
                ELSE KindOf(last') = "raise" /\ ValueOf(last') = "ValueError"
    ]_vars

\* C10: an Object descriptor with type_name T raises TypeMismatch on wire data
\* whose embedded tag differs from T, and never raises it on data with no tag
\* or with the tag T.
C10_TypeMismatchRaised ==
  OpOf(last) = "MCPObject.deserialize_value" =>
    LET T == ArgOf(last)[1]
        parsed == ParsePayload(ArgOf(last)[2])
        tagged == /\ parsed.kind = "ok"
                  /\ TypeOf(parsed.val) = "dict"
                  /\ HasKey(parsed.val, "__mcp_type__")
    IN IF tagged /\ ~HasKey(parsed.val, "__mcp_ptr__")
            /\ Item(parsed.val, "__mcp_type__") # StrV(T.type_name)
         THEN KindOf(last) = "raise" /\ ValueOf(last) = "TypeMismatch"
         ELSE ~(KindOf(last) = "raise" /\ ValueOf(last) = "TypeMismatch")

\* the descriptor and the value of a serialize_value / deserialize_value call
CallType == ArgOf(last)[1]

CallValue == ArgOf(last)[2]

\* the names an Object descriptor declares
DeclaredNames(T) == {T.properties[i][1] : i \in DOMAIN T.properties}

\* the pairs of a dict, as a set
Pairs(d) == {ValOf(d)[i] : i \in DOMAIN ValOf(d)}

\* wire data that parses to a dict with neither an inline tag nor the marker
Untagged(data) ==
  /\ ParsePayload(data).kind = "ok"
  /\ TypeOf(ParsePayload(data).val) = "dict"
  /\ ~HasKey(ParsePayload(data).val, "__mcp_type__")
  /\ ~HasKey(ParsePayload(data).val, "__mcp_ptr__")

\* each declared property present in the parsed data, passed through its
\* nested descriptor
DeclaredThrough(T, parsed) ==
  {<<T.properties[i][1], deserialize_value(T.properties[i][2],
                                           Item(parsed, ValOf(T.properties[i][1]))).val>> :
     i \in {j \in DOMAIN T.properties : HasKey(parsed, ValOf(T.properties[j][1]))}}

\* C11: an Object descriptor deserializes untagged wire data to a dict holding
\* only the declared properties, each passed through its nested descriptor
\* ({"x": "3", "y": 4} under x:Int, y:Int gives {"x": 3, "y": 4}), and its
\* serialize emits only the declared properties (and the type tag).
C11_ObjectKeepsDeclaredProperties ==
  /\ (OpOf(last) = "deserialize_value" /\ CallType.k = "object" /\ Untagged(CallValue)
        /\ \A i \in DOMAIN CallType.properties :
              HasKey(ParsePayload(CallValue).val, ValOf(CallType.properties[i][1])) =>
                deserialize_value(CallType.properties[i][2],
                                  Item(ParsePayload(CallValue).val,
                                       ValOf(CallType.properties[i][1]))).kind = "ok")
      => /\ KindOf(last) = "ok"
         /\ TypeOf(ValueOf(last)) = "dict"
         /\ Pairs(ValueOf(last)) = DeclaredThrough(CallType, ParsePayload(CallValue).val)
  /\ (OpOf(last) = "serialize_value" /\ CallType.k = "object" /\ KindOf(last) = "ok")
      => /\ json_loads(ValueOf(last)).kind = "ok"
         /\ Keys(json_loads(ValueOf(last)).val)
              \subseteq DeclaredNames(CallType) \cup {StrV("__mcp_type__")}

\* the first variant, in declared order, whose serialize_value succeeds
FirstSerializing(T, x) ==
  LET ok == {i \in DOMAIN T.variants : serialize_value(T.variants[i], x).kind = "ok"}
  IN IF ok = {} THEN Ok(StrV(PyStr(x)))
     ELSE serialize_value(T.variants[CHOOSE i \in ok : \A j \in ok : i <= j], x)

\* C12: Union serialize returns the encoding of the first variant, in declared
\* order, whose serialize succeeds (Union([Int, String]) on 5 gives the Int
\* encoding 5), falls back to str(value) when every variant fails, and never
\* raises.
C12_UnionSerializesFirstMatch ==
  (OpOf(last) = "serialize_value" /\ CallType.k = "union")
    => /\ KindOf(last) = "ok"
       /\ ValueOf(last) = FirstSerializing(CallType, CallValue).val

\* the tag embedded in wire data, or None
EmbeddedTag(data) ==
  IF ParsePayload(data).kind = "ok" /\ TypeOf(ParsePayload(data).val) = "dict"
       /\ HasKey(ParsePayload(data).val, "__mcp_type__")
    THEN Item(ParsePayload(data).val, "__mcp_type__")
    ELSE NoneV

\* the Object variant whose type_name is the embedded tag, else the first
\* variant whose deserialize_value succeeds, else the raw data
UnionResolve(T, data) ==
  LET tagged == {i \in DOMAIN T.variants :
                   /\ T.variants[i].k = "object"
                   /\ EmbeddedTag(data) = StrV(T.variants[i].type_name)}
      ok == {i \in DOMAIN T.variants : deserialize_value(T.variants[i], data).kind = "ok"}
  IN IF tagged # {} /\ deserialize_value(T.variants[CHOOSE i \in tagged : TRUE], data).kind = "ok"
       THEN deserialize_value(T.variants[CHOOSE i \in tagged : TRUE], data)
     ELSE IF ok # {}
       THEN deserialize_value(T.variants[CHOOSE i \in ok : \A j \in ok : i <= j], data)
     ELSE Ok(data)

\* C13: Union deserialize returns what the Object variant matching the embedded
\* tag makes of the data, else what the first variant, in declared order,
\* whose deserialize succeeds makes of it, else the raw data; it never raises.
C13_UnionDeserializesByVariant ==
  (OpOf(last) = "deserialize_value" /\ CallType.k = "union")
    => /\ KindOf(last) = "ok"
       /\ ValueOf(last) = UnionResolve(CallType, CallValue).val

\* C14: Optional(D) maps None to None in both directions, and on every other
\* input returns what D returns and raises what D raises.
C14_OptionalDelegates ==
  (OpOf(last) \in {"serialize_value", "deserialize_value"} /\ CallType.k = "optional")
    => LET D == CallType.inner_type
           inner == IF OpOf(last) = "serialize_value" THEN serialize_value(D, CallValue)
                    ELSE deserialize_value(D, CallValue)
       IN IF TypeOf(CallValue) = "none"
            THEN KindOf(last) = "ok" /\ ValueOf(last) = NoneV
            ELSE KindOf(last) = inner.kind /\ ValueOf(last) = inner.val

C14_Witness ==
  /\ OpOf(last) = "deserialize_value"
  /\ CallType = MCPOptional(MCP_INT)
  /\ CallValue = StrV("5")
  /\ KindOf(last) = "ok"
  /\ ValueOf(last) = IntV(5)

\* the Python type of the native values of a primitive kind
NativeOf(T) ==
  CASE T.k = "int" -> "int"
    [] T.k = "float" -> "float"
    [] T.k = "string" -> "str"
    [] T.k = "bool" -> "bool"

\* C15: for a primitive descriptor K and a native value v of its kind,
\* K.deserialize_value(K.serialize_value(v)) is v.
C15_PrimitiveRoundTrip ==
  (OpOf(last) = "round_trip" /\ CallType.k \in {"int", "float", "string", "bool"}
     /\ TypeOf(CallValue) = NativeOf(CallType))
    => KindOf(last) = "ok" /\ ValueOf(last) = CallValue

C15_Witness ==
  /\ OpOf(last) = "round_trip"
  /\ CallType = MCP_STRING
  /\ CallValue = StrV("x")
  /\ ValueOf(last) = StrV("x")

\* C16: for Array(items) and a sequence v, deserialize_value(serialize_value(v))
\* is a list as long as v whose element i is items' coercion of v[i]
\* (Array(Int) turns ["3", 4] into [3, 4]).
C16_ArrayRoundTripCoerces ==
  (OpOf(last) = "round_trip" /\ CallType.k = "array" /\ IsSequence(CallValue)
     /\ \A i \in DOMAIN Elements(CallValue) :
           serialize_value(CallType.items, Elements(CallValue)[i]).kind = "ok")
    => /\ KindOf(last) = "ok"
       /\ TypeOf(ValueOf(last)) = "list"
       /\ Len(ValOf(ValueOf(last))) = Len(Elements(CallValue))
       /\ \A i \in DOMAIN Elements(CallValue) :
            ValOf(ValueOf(last))[i] = serialize_value(CallType.items, Elements(CallValue)[i]).val

\* C17: Array lifts a value that is not a sequence into a one-element
\* sequence in both directions and never reports it as an error:
\* serialize_value always returns the text of a JSON array and
\* deserialize_value always returns a list.
C17_ArrayLiftsScalars ==
  /\ (OpOf(last) = "serialize_value" /\ CallType.k = "array")
       => /\ KindOf(last) = "ok"
          /\ json_loads(ValueOf(last)).kind = "ok"
          /\ TypeOf(json_loads(ValueOf(last)).val) = "list"
          /\ ~IsSequence(CallValue) => Len(ValOf(json_loads(ValueOf(last)).val)) = 1
  /\ (OpOf(last) = "deserialize_value" /\ CallType.k = "array")
       => /\ KindOf(last) = "ok"
          /\ TypeOf(ValueOf(last)) = "list"
          /\ (json_loads(CallValue).kind = "raise"
                \/ TypeOf(json_loads(CallValue).val) # "list")
               => Len(ValOf(ValueOf(last))) = 1

\* the descriptor of a primitive Python type
KindDescriptor(t) ==
  CASE t = "int" -> MCP_INT
    [] t = "float" -> MCP_FLOAT
    [] t = "str" -> MCP_STRING
    [] t = "bool" -> MCP_BOOL

\* C18: inference maps an int to Int, a float to Float, a str to String and a
\* bool to Bool (never Int), and the engine's serialize of a primitive returns
\* a value of the same kind.
C18_PrimitivesInferOwnKind ==
  /\ (OpOf(last) = "convert_from_value"
        /\ TypeOf(ArgOf(last)) \in {"int", "float", "str", "bool"})
       => ValueOf(last) = KindDescriptor(TypeOf(ArgOf(last)))
  /\ (OpOf(last) = "serialize" /\ TypeOf(ArgOf(last)) \in {"int", "float", "str", "bool"})
       => KindOf(last) = "ok" /\ TypeOf(ValueOf(last)) = TypeOf(ArgOf(last))

\* C19: a non-empty sequence infers Array of the descriptor inferred from its
\* first element, an empty one Array(String), a mapping an Object with the
\* per-key inferred descriptors and all keys required; the engine serializes a
\* bare sequence to the text of a JSON array and a bare mapping to the text of
\* a JSON object, never a pointer envelope, and registers no handle.
C19_CollectionsInferAndStayInline ==
  /\ (OpOf(last) = "convert_from_value" /\ IsSequence(ArgOf(last)))
       => ValueOf(last) = MCPArray(IF Elements(ArgOf(last)) = <<>> THEN MCP_STRING
                                   ELSE convert_from_value(Elements(ArgOf(last))[1]))
  /\ (OpOf(last) = "convert_from_value" /\ TypeOf(ArgOf(last)) = "dict")
       => /\ ValueOf(last).k = "object"
          /\ ValueOf(last).required = [i \in DOMAIN ValOf(ArgOf(last)) |-> ValOf(ArgOf(last))[i][1]]
          /\ ValueOf(last).properties =
               [i \in DOMAIN ValOf(ArgOf(last)) |->
                  <<ValOf(ArgOf(last))[i][1], convert_from_value(ValOf(ArgOf(last))[i][2])>>]
  /\ (OpOf(last) = "serialize" /\ (IsSequence(ArgOf(last)) \/ TypeOf(ArgOf(last)) = "dict"))
       => /\ KindOf(last) = "ok"
          /\ json_loads(ValueOf(last)).kind = "ok"
          /\ TypeOf(json_loads(ValueOf(last)).val)
               = (IF TypeOf(ArgOf(last)) = "dict" THEN "dict" ELSE "list")
          /\ ~HasKey(json_loads(ValueOf(last)).val, "__mcp_ptr__")
          /\ DOMAIN objects = {}
          /\ nextId = 1

\* the descriptors of the closed variant set
RECURSIVE Supported(_)
Supported(T) ==
  /\ HasBuilder(T)
  /\ T.k = "optional" => Supported(T.inner_type)

\* the JSON Schema type name of a primitive descriptor
NativeSchemaType(T) ==
  CASE T.k = "int" -> "integer"
    [] T.k = "float" -> "number"
    [] T.k = "string" -> "string"
    [] T.k = "bool" -> "boolean"

\* what the projection of a descriptor that is no Optional has to be
PlainProjection(T, kind, val) ==
  CASE ~Supported(T) -> kind = "raise" /\ val = "ValueError"
    [] T.k \in {"any", "array", "object", "union"} ->
         /\ kind = "ok"
         /\ Item(val, "type") = StrV("string")
         /\ HasKey(val, "description")
         /\ TypeOf(Item(val, "description")) = "str"
         /\ ValOf(Item(val, "description")) # ""
    [] T.k \in {"int", "float", "string", "bool"} ->
         kind = "ok" /\ val = TypeSchema(NativeSchemaType(T))

\* a schema with " (optional, can be null)" appended to its description, when it has one
WithOptionalNote(schema) ==
  IF HasKey(schema, "description")
    THEN DictV(SetItem(ValOf(schema), "description",
                       StrV(ValOf(Item(schema, "description")) \o " (optional, can be null)")))
    ELSE schema

\* C20 as stated: non-primitive descriptors project to a string schema with a
\* description, primitives to their native type, Optional(D) to
\* anyOf[projection(D), null] for every D, and a descriptor outside the closed
\* set raises; the schema depends on the descriptor alone.
C20_ProjectionOpaqueString ==
  OpOf(last) = "build"
    => IF Supported(ArgOf(last)) /\ ArgOf(last).k = "optional"
         THEN /\ KindOf(last) = "ok"
              /\ ValueOf(last) = AnyOfNull(build(ArgOf(last).inner_type).val)
         ELSE PlainProjection(ArgOf(last), KindOf(last), ValueOf(last))

\* C20 amended: as stated, except that Optional(D) projects to anyOf[S, null]
\* where S is projection(D) with " (optional, can be null)" appended to its
\* description when it carries one.
C20_ProjectionOptionalAnnotated ==
  OpOf(last) = "build"
    => IF Supported(ArgOf(last)) /\ ArgOf(last).k = "optional"
         THEN /\ KindOf(last) = "ok"
              /\ ValueOf(last) = AnyOfNull(WithOptionalNote(build(ArgOf(last).inner_type).val))
         ELSE PlainProjection(ArgOf(last), KindOf(last), ValueOf(last))

C20_Witness ==
  /\ OpOf(last) = "build"
  /\ ArgOf(last) = MCPOptional(MCPArray(MCP_INT))
  /\ KindOf(last) = "ok"
  /\ ValueOf(last) = AnyOfNull(StringSchema(
       "json-serialized array with items of type: MCPInt (optional, can be null)"))

\* the names of the parameters flagged required, in declaration order
RequiredNames(params) ==
  LET req == SelectSeq(params, LAMBDA q : q.is_required)
  IN ListV([j \in DOMAIN req |-> StrV(req[j].name)])

\* the discovery schema of fs is an object schema whose properties are the
\* declared names, each mapped by Property, and whose required list is the
\* required names
DiscoverySchema(fs, inputSchema, Property(_)) ==
  /\ Item(inputSchema, "type") = StrV("object")
  /\ ValOf(Item(inputSchema, "properties"))
       = [j \in DOMAIN fs.parameters |->
            <<StrV(fs.parameters[j].name), Property(fs.parameters[j])>>]
  /\ Item(inputSchema, "required") = RequiredNames(fs.parameters)

\* the Schema Projection of a parameter's descriptor
Projected(param) == build(param.type).val

\* the projection with its description replaced by the parameter's own
DescribedProjection(param) ==
  IF param.description \notin {None, ""}
    THEN DictV(SetItem(ValOf(build(param.type).val), "description", StrV(param.description)))
    ELSE build(param.type).val

\* C21 as stated: the discovery schema of every registered FunctionSchema is an
\* object schema whose properties are exactly the declared parameter names,
\* each mapped to the Schema Projection of the parameter's descriptor, and
\* whose required list is the required parameters' names in declaration order.
C21_DiscoverySchemaProjects ==
  (OpOf(last) = "list_tools" /\ KindOf(last) = "ok")
    => /\ DOMAIN ValueOf(last) = DOMAIN schemas
       /\ \A i \in DOMAIN schemas :
            DiscoverySchema(schemas[i][2], ValueOf(last)[i].inputSchema, Projected)

\* C21 amended: as stated, except that each parameter name is mapped to the
\* Schema Projection of its descriptor with the description replaced by the
\* parameter's own description when the parameter has one.
C21_DiscoverySchemaDescribed ==
  (OpOf(last) = "list_tools" /\ KindOf(last) = "ok")
    => /\ DOMAIN ValueOf(last) = DOMAIN schemas
       /\ \A i \in DOMAIN schemas :
            DiscoverySchema(schemas[i][2], ValueOf(last)[i].inputSchema, DescribedProjection)

C21_Witness ==
  /\ OpOf(last) = "list_tools"
  /\ KindOf(last) = "ok"
  /\ \E i \in DOMAIN schemas :
       /\ schemas[i][2] = GetattrSchema
       /\ Item(Item(ValueOf(last)[i].inputSchema, "properties"), "obj")
            = StringSchema("object to get attribute from")
       /\ Item(ValueOf(last)[i].inputSchema, "required") = ListV(<<StrV("obj"), StrV("name")>>)

\* the classes of the exceptions raised in the model
ExceptionNames ==
  {"ToolError", "ValueError", "TypeError", "KeyError", "AttributeError", "JSONDecodeError"}

\* C22: in a call, every argument present under a declared parameter name is
\* deserialized through that parameter's descriptor before the tool function is
\* invoked; if one of them raises, or the tool is unknown, the tool function is
\* not invoked, nothing is put in place of the bad input and the call returns
\* an error text; the handler always returns a text.
C22_ArgumentsDeserializedBeforeDispatch ==
  [][OpOf(last') = "call_tool"
       => LET name == ArgOf(last')[1]
              arguments == ArgOf(last')[2]
              raw == IF TypeOf(arguments) = "dict" THEN arguments ELSE DictV(<<>>)
              known == name \in Names(tools)
              declared == IF known THEN At(schemas, name).parameters ELSE <<>>
              present == SelectSeq(declared, LAMBDA q : HasKey(raw, q.name))
              through(j) == deserialize_value(present[j].type, Item(raw, present[j].name))
              failing == \E j \in DOMAIN present : through(j).kind = "raise"
          IN /\ KindOf(last') = "ok"
             /\ TypeOf(ValueOf(last')) = "str"
             /\ calls' \in {calls, calls + 1}
             /\ (~known \/ failing)
                  => /\ calls' = calls
                     /\ received' = received
                     /\ ValOf(ValueOf(last')) \in {ErrorText(e) : e \in ExceptionNames}
             /\ (known /\ ~failing)
                  => /\ calls' = calls + 1
                     /\ received' = <<name, DictV([j \in DOMAIN present |->
                                        <<StrV(present[j].name), through(j).val>>])>>]_vars

C22_Witness ==
  /\ OpOf(last) = "call_tool"
  /\ ArgOf(last) = <<"add", DictV(<< <<StrV("a"), StrV("3")>>, <<StrV("b"), StrV("x")>> >>)>>
  /\ "add" \in Names(tools)
  /\ ValueOf(last) = StrV(ErrorText("ValueError"))
  /\ calls = 0

\* C23: in every reachable state the handle table and the cleanup-hook table
\* hold the same handles: every stored object has a hook that is still
\* attached, and no hook is kept for a handle that was removed.
C23_TablesHoldSameHandles ==
  /\ DOMAIN objects = finalizers
  /\ \A h \in finalizers : h \in DOMAIN hooks /\ hooks[h].alive

RegistrationOps ==
  {"add_tool", "ToolHolder.__ior__", "ToolHolder.__iadd__", "McpifiedServer.__iadd__",
   "McpifiedServer.__ior__"}

\* C24: a registration (add_tool, |= or += on the holder or the server) that
\* raises ToolError leaves the tools and schemas maps as they were, and no
\* registration replaces the tool or the schema already stored under a name.
C24_RegistrationAllOrNothing ==
  [][OpOf(last') \in RegistrationOps
       => /\ KindOf(last') = "raise" => (tools' = tools /\ schemas' = schemas)
          /\ \A n \in Names(tools) :
               /\ n \in Names(tools')
               /\ At(tools', n) = At(tools, n)
               /\ At(schemas', n) = At(schemas, n)]_vars

====
